---- MODULE Spec2Model ----
(***************************************************************************)
(* A model of src/script.py: the cross-chain bridge listener.              *)
(*                                                                         *)
(* One asyncio event loop runs main(), run() and one _listener_task per    *)
(* key of self.connectors.  A step of the model is what one coroutine does *)
(* between two suspension points (await asyncio.sleep, the GET of the      *)
(* price, the POST of the report, await session.close()).                  *)
(*                                                                         *)
(* Strings that the code inspects character by character (addresses) are   *)
(* sequences of one-character strings; strings it only builds and compares *)
(* (the message to sign, the transaction hash) are strings.                *)
(***************************************************************************)
EXTENDS Integers, Sequences, FiniteSets, TLC

VARIABLES
    chains_to_listen,   \* CrossChainBridgeListener.chains_to_listen
    contract_addresses, \* the keys of Config.BRIDGE_CONTRACT_ADDRESSES
    connectors,         \* keys of self.connectors, in insertion order
    lanes,              \* one record per _listener_task, in the order of tasks
    is_running,         \* CrossChainBridgeListener._is_running
    session,            \* EventProcessor.session: "None", "open" or "closed"
    run_pc,             \* where run() is
    main_pc,            \* where main() is
    cancel_requested,   \* the main task was cancelled (SIGINT)
    closes              \* how many times session.close() was executed

vars == <<chains_to_listen, contract_addresses, connectors, lanes,
          is_running, session, run_pc, main_pc, cancel_requested, closes>>

\* what is supplied at startup and never assigned afterwards
config == <<chains_to_listen, contract_addresses>>

----------------------------------------------------------------------------
(* Bounds of the model *)

\* a listener stops discovering events once its nonce_counter is MaxNonce
MaxNonce == 3
\* events a stub connector yields to its lane
MaxFeed == 2

----------------------------------------------------------------------------
(* Config *)

RPC_ENDPOINTS == {1, 137}
BRIDGE_CONTRACT_ADDRESSES == {1, 137}
\* The chains_to_listen lists of the model: empty, an unknown chain id (56)
\* alone and among configured ones, one chain, the list of main(), and
\* lists that name a chain id twice.
ChainLists == {<<>>, <<56>>, <<1>>, <<137, 56>>, <<1, 1>>, <<1, 137>>,
               <<1, 137, 1>>}

\* Python's None, and a value that is not None (Optional as a sequence)
None == <<>>
Some(x) == <<x>>

----------------------------------------------------------------------------
(* Strings *)

HexDigits == <<"0", "1", "2", "3", "4", "5", "6", "7", "8", "9",
               "a", "b", "c", "d", "e", "f">>
HexChars == {HexDigits[k] : k \in 1..16} \cup {"A", "B", "C", "D", "E", "F"}
AddressDigits == 40

RECURSIVE Str(_)
\* ''.join(chars)
Str(chars) == IF chars = <<>> THEN "" ELSE Head(chars) \o Str(Tail(chars))

RECURSIVE HexOf(_)
HexOf(n) == IF n < 16 THEN HexDigits[n + 1]
            ELSE HexOf(n \div 16) \o HexDigits[(n % 16) + 1]

\* Web3.to_hex of a non-negative int
to_hex(n) == "0x" \o HexOf(n)

\* Web3.is_address of a str: "0x" (optional in web3, always present here)
\* and 40 hex digits.  The EIP-55 checksum test of a mixed-case address
\* needs keccak and is not modelled: the addresses of the model are
\* single-case.
is_address(a) ==
    /\ Len(a) = 2 + AddressDigits
    /\ a[1] = "0" /\ a[2] \in {"x", "X"}
    /\ \A k \in 3..Len(a) : a[k] \in HexChars

\* Web3.to_checksum_address: raises on what is no address; an address made
\* of decimal digits only has no letter to capitalise and is returned as is.
to_checksum_address(a) == IF is_address(a) THEN a ELSE None

\* f"0x{''.join(random.choices('0123456789abcdef', k=40))}" with one digit
\* drawn and repeated
HexAddress(d) == <<"0", "x">> \o [k \in 1..AddressDigits |-> HexDigits[d]]

USDC == <<"0", "x", "A", "0", "b", "8", "6", "9", "9", "1", "c", "6", "2",
          "1", "8", "b", "3", "6", "c", "1", "d", "1", "9", "D", "4", "a",
          "2", "e", "9", "E", "b", "0", "c", "E", "3", "6", "0", "6", "e",
          "B", "4", "8">>

Million == 1000000

----------------------------------------------------------------------------
(* DepositEvent and BlockchainConnector._generate_mock_event *)

DepositEvent(tx, src, dst, dep, rec, tok, amt, n) ==
    [transaction_hash |-> tx, source_chain_id |-> src,
     destination_chain_id |-> dst, depositor |-> dep, recipient |-> rec,
     token_address |-> tok, amount |-> amt, nonce |-> n]

\* The draws of one _generate_mock_event call: random.randint(1, 10**18)
\* of the transaction hash, the digit of the depositor and of the recipient
\* (an index into '0123456789abcdef', repeated 40 times),
\* random.randint(100, 10000) of the amount.  Whatever is drawn, the event
\* is valid and its destination is fixed by the chain; events with other
\* field values are fed by StubYields.
MockDraws == [tx : {255}, dep : {1}, rec : {2}, units : {100}]

\* the destination is chain 137 whatever the source chain is
_generate_mock_event_one_destination(chain_id, nonce, r) ==
    DepositEvent(to_hex(r.tx),
                 chain_id,
                 137,
                 to_checksum_address(HexAddress(r.dep)),
                 to_checksum_address(HexAddress(r.rec)),
                 USDC,
                 r.units * Million,
                 nonce)

_generate_mock_event(chain_id, nonce, r) ==
    DepositEvent(to_hex(r.tx),
                 chain_id,
                 IF chain_id = 1 THEN 137 ELSE 1,
                 to_checksum_address(HexAddress(r.dep)),
                 to_checksum_address(HexAddress(r.rec)),
                 USDC,
                 r.units * Million,
                 nonce)

\* What a connector put in self.connectors in place of the mock one (a test
\* double) may yield: any DepositEvent.  BadAddress is one digit short.
BadAddress == SubSeq(HexAddress(1), 1, 1 + AddressDigits)
StubEvents ==
    {DepositEvent(tx, src, dst, dep, rec, USDC, amt, n) :
        tx \in {to_hex(1), to_hex(255)},
        src \in {1, 137},
        dst \in {1, 137},
        dep \in {HexAddress(1), HexAddress(2), BadAddress},
        rec \in {HexAddress(2), BadAddress},
        amt \in {-1, 0, 100 * Million},
        n \in {2, 3}}

\* nonce_counter is not incremented
next_nonce_stuck(nonce_counter) == nonce_counter

\* nonce_counter += 1
next_nonce(nonce_counter) == nonce_counter + 1

----------------------------------------------------------------------------
(* EventProcessor *)

\* the amount test is event.amount < 0: a deposit of 0 passes
_is_valid_event_zero(event) ==
    IF event.amount < 0 THEN FALSE
    ELSE IF ~is_address(event.depositor) \/ ~is_address(event.recipient)
         THEN FALSE
         ELSE TRUE

_is_valid_event(event) ==
    IF event.amount <= 0 THEN FALSE
    ELSE IF ~is_address(event.depositor) \/ ~is_address(event.recipient)
         THEN FALSE
         ELSE TRUE

\* not (not self.session or self.session.closed)
session_available(s) == s = "open"

\* What the GET of TOKEN_PRICE_API can end in: a JSON body with
\* ethereum.usd = usd, a JSON body without that key, a body that is no JSON
\* object, a 4xx/5xx status, an aiohttp.ClientError, asyncio.TimeoutError.
PriceResponses ==
    [kind : {"json"}, usd : {0, 2}] \cup
    [kind : {"no_price", "malformed", "error_status", "client_error",
             "timeout"}, usd : {0}]

\* _get_token_price from the response on: float(price) if price is truthy,
\* None after every exception and when the price is missing or 0
_get_token_price(resp) ==
    IF resp.kind = "json" /\ resp.usd # 0 THEN Some(resp.usd) ELSE None

\* if token_price_usd: (None and 0.0 are falsy)
truthy(token_price_usd) == token_price_usd # None /\ token_price_usd[1] # 0

\* value_usd if token_price_usd else -1, with value_usd =
\* (event.amount / 10**6) * token_price_usd (the amounts of the model are
\* multiples of 10**6, for which the float division is exact)
reported_value(event, token_price_usd) ==
    IF truthy(token_price_usd)
    THEN (event.amount \div Million) * token_price_usd[1]
    ELSE -1

\* the transaction hash is made part of the message
message_to_sign_with_tx(event) ==
    Str(event.recipient) \o "-" \o Str(event.token_address) \o "-" \o
    ToString(event.amount) \o "-" \o ToString(event.nonce) \o "-" \o
    ToString(event.destination_chain_id) \o "-" \o event.transaction_hash

message_to_sign(event) ==
    Str(event.recipient) \o "-" \o Str(event.token_address) \o "-" \o
    ToString(event.amount) \o "-" \o ToString(event.nonce) \o "-" \o
    ToString(event.destination_chain_id)

\* Web3.keccak(text=...).hex(): a fixed function of the text, kept symbolic
keccak(text) == <<"keccak", text>>

\* the message hash _request_validator_signatures logs
_request_validator_signatures(event) == keccak(message_to_sign(event))

report_payload(event, value_usd) ==
    [tx_hash |-> event.transaction_hash,
     source_chain |-> event.source_chain_id,
     dest_chain |-> event.destination_chain_id,
     amount |-> event.amount,
     value_usd |-> value_usd,
     status |-> "PROCESSED"]

\* the payload of the POST a lane in "report" waits for
posted(l) == report_payload(l.event[1], l.value_usd)

\* What the POST to MONITORING_API_ENDPOINT can end in
ReportResponses == {"200", "500", "client_error", "timeout"}

\* _report_to_monitoring_service catches aiohttp.ClientError only: the
\* asyncio.TimeoutError of the session's total timeout is none
report_raises(resp) == resp = "timeout"

----------------------------------------------------------------------------
(* A lane: one _listener_task, its generator and the event it processes *)

\* pc: "sleep"   in await asyncio.sleep(5 + uniform(0, 3)) of the generator
\*     "backoff" in await asyncio.sleep(15) of the except branch
\*     "price"   process_event waits for the GET of _get_token_price
\*     "report"  process_event waits for the POST of the report
\*     "raised"  an exception left _listener_task
\*     "cancelled" CancelledError was thrown into the task
\* The fields from stages on are a record of what the lane did.
NewLane(chain_id) ==
    [chain |-> chain_id, pc |-> "sleep", nonce_counter |-> 0,
     event |-> None,           \* the event being processed, or the last one
     value_usd |-> 0,          \* the value passed to the report call
     price |-> "none",         \* how the price fetch of the event ended
     stages |-> <<>>,          \* the stages the event went through, with
                               \* the requests issued ("GET", "POST")
     received |-> <<>>,        \* the events the lane received: source, nonce
     terminal |-> <<>>,        \* events brought to a terminal state
     signed |-> {}]            \* the dispatch calls: event, message hash

Key(event) == <<event.source_chain_id, event.nonce>>

\* process_event returns (or raises): the event is in a terminal state
Terminal(l, outcome, pc) ==
    [l EXCEPT !.pc = pc,
              !.stages = @ \o <<outcome>>,
              !.terminal = Append(@, [key |-> Key(l.event[1]),
                                      outcome |-> outcome])]

\* process_event from the return of _report_to_monitoring_service
\* (line 157) to its own return; the generator then resumes after its
\* yield and sleeps
Reported(l) ==
    Terminal([l EXCEPT !.stages = @ \o <<"Reported">>], "Done", "sleep")

\* the report is POSTed without the test of the session
Dispatch_unchecked(l, token_price_usd, s) ==
    LET e == l.event[1]
        v == reported_value(e, token_price_usd)
    IN  [l EXCEPT !.stages = @ \o <<"Dispatched", "POST">>,
                  !.signed = @ \cup
                      {[event |-> e,
                        hash |-> _request_validator_signatures(e)]},
                  !.value_usd = v,
                  !.pc = "report"]

\* process_event from the dispatch call (line 154) up to the POST of the
\* report, or to the end when the session is not available
Dispatch(l, token_price_usd, s) ==
    LET e == l.event[1]
        v == reported_value(e, token_price_usd)
        d == [l EXCEPT !.stages = @ \o <<"Dispatched">>,
                       !.signed = @ \cup
                           {[event |-> e,
                             hash |-> _request_validator_signatures(e)]},
                       !.value_usd = v]
    IN  IF session_available(s)
        THEN [d EXCEPT !.pc = "report", !.stages = @ \o <<"POST">>]
        ELSE Reported(d)

\* how the price fetch ended, for the record of the lane
Fetched(l, token_price_usd) ==
    [l EXCEPT !.stages = @ \o <<"Enriched">>,
              !.price = IF truthy(token_price_usd) THEN "price"
                        ELSE "unavailable"]

\* an event without a price is given up before the dispatch call
Enriched_or_failed(l, token_price_usd, s) ==
    IF truthy(token_price_usd)
    THEN Dispatch(Fetched(l, token_price_usd), token_price_usd, s)
    ELSE Terminal(Fetched(l, token_price_usd), "Failed", "sleep")

\* process_event from the return of _get_token_price (line 146) on: the
\* price decides the logged and reported value only
Enriched(l, token_price_usd, s) ==
    Dispatch(Fetched(l, token_price_usd), token_price_usd, s)

\* an invalid event is logged and process_event goes on (no return)
process_event_no_return(l, event, s) ==
    LET r == [l EXCEPT !.event = Some(event),
                       !.stages = <<"Received">>,
                       !.price = "none",
                       !.value_usd = 0,
                       !.received = Append(@, Key(event))]
        v == IF _is_valid_event(event)
             THEN [r EXCEPT !.stages = @ \o <<"Validated">>]
             ELSE r
    IN  IF session_available(s)
        THEN [v EXCEPT !.pc = "price", !.stages = @ \o <<"GET">>]
        ELSE Enriched(v, None, s)

\* _listener_task receives an event from its generator and process_event
\* runs up to its first suspension point
process_event(l, event, s) ==
    LET r == [l EXCEPT !.event = Some(event),
                       !.stages = <<"Received">>,
                       !.price = "none",
                       !.value_usd = 0,
                       !.received = Append(@, Key(event))]
    IN  IF ~_is_valid_event(event)
        THEN Terminal(r, "Rejected", "sleep")
        ELSE LET v == [r EXCEPT !.stages = @ \o <<"Validated">>]
             IN  IF session_available(s)
                 THEN [v EXCEPT !.pc = "price", !.stages = @ \o <<"GET">>]
                 ELSE Enriched(v, None, s)

\* the POST ended: the report returns, or its exception leaves
\* process_event and _listener_task
report_done(l, resp) ==
    IF report_raises(resp)
    THEN Terminal(l, "Failed", "raised")
    ELSE Reported(l)

\* CancelledError is thrown into the task where it is suspended
cancel_lane(l) ==
    IF l.pc \in {"raised", "cancelled"} THEN l
    ELSE [l EXCEPT !.pc = "cancelled",
                   !.stages = IF l.pc \in {"price", "report"}
                              THEN @ \o <<"Cancelled">> ELSE @]

\* the except branch of listen_for_deposits leaves the while loop: the
\* generator is exhausted and the async for of _listener_task is over
poll_failed_ends(l) ==
    [l EXCEPT !.pc = "ended", !.nonce_counter = next_nonce(@)]

\* an exception after nonce_counter += 1 (line 86): the except branch logs
\* it and awaits asyncio.sleep(15), inside while True
poll_failed(l) ==
    [l EXCEPT !.pc = "backoff", !.nonce_counter = next_nonce(@)]

LISTENER_POLL_INTERVAL_SECONDS == 5

\* the ends of random.uniform(0, 3)
Jitter == {0, 3}

\* how long the sleep of a lane in pc lasts, u being the draw of
\* random.uniform(0, 3)
sleep_seconds(pc, u) ==
    IF pc = "backoff" THEN 15 ELSE LISTENER_POLL_INTERVAL_SECONDS + u

\* process_event is started as a task of its own and not awaited: the
\* generator polls on while an event is being processed
can_poll_busy(l) == l.pc \in {"sleep", "price", "report"}

\* async for ... : await process_event(event): the generator is resumed,
\* and polls again, only when process_event has returned
can_poll(l) == l.pc = "sleep"

----------------------------------------------------------------------------
(* CrossChainBridgeListener *)

\* the connectors are kept in a list: a chain id named twice is kept twice
dict_set_list(keys, k) == Append(keys, k)

\* self.connectors[chain_id] = ...: a dict holds a key once
dict_set(keys, k) ==
    IF \E j \in 1..Len(keys) : keys[j] = k THEN keys ELSE Append(keys, k)

RECURSIVE _initialize_connectors(_, _, _)
\* the keys of self.connectors after the loop over chains, from keys, and
\* whether the loop was left by the KeyError of
\* Config.BRIDGE_CONTRACT_ADDRESSES[chain_id] (the arguments are evaluated
\* before self.connectors[chain_id] is assigned)
_initialize_connectors(chains, keys, addresses) ==
    IF chains = <<>> THEN [connectors |-> keys, raised |-> FALSE]
    ELSE IF Head(chains) \notin RPC_ENDPOINTS
         THEN _initialize_connectors(Tail(chains), keys, addresses)
         ELSE IF Head(chains) \notin addresses
              THEN [connectors |-> keys, raised |-> TRUE]
              ELSE _initialize_connectors(Tail(chains),
                                          dict_set(keys, Head(chains)),
                                          addresses)

\* tasks = [self._listener_task(chain_id) for chain_id in self.connectors]
tasks(keys) == [j \in 1..Len(keys) |-> NewLane(keys[j])]

Lanes == 1..Len(lanes)

\* EventProcessor.start_session
start_session(s) == IF s # "open" THEN "open" ELSE s

\* EventProcessor.close_session: the session after it, and whether
\* session.close() was executed
close_session(s) ==
    IF s = "open" THEN [session |-> "closed", closed |-> 1]
    ELSE [session |-> s, closed |-> 0]

\* _is_running is reset and the session is left as it is
shutdown_keeps_session(running, s) ==
    [is_running |-> FALSE, session |-> s, closed |-> 0]

\* CrossChainBridgeListener.shutdown
shutdown(running, s) ==
    IF running
    THEN [is_running |-> FALSE] @@ close_session(s)
    ELSE [is_running |-> running, session |-> s, closed |-> 0]

----------------------------------------------------------------------------
(* The state after CrossChainBridgeListener(chains_to_listen), in main() *)

Init ==
    /\ chains_to_listen \in ChainLists
    /\ contract_addresses = BRIDGE_CONTRACT_ADDRESSES
    /\ connectors = <<>>
    /\ lanes = <<>>
    /\ is_running = FALSE
    /\ session = "None"
    /\ run_pc = "init"
    /\ main_pc = "run"
    /\ cancel_requested = FALSE
    /\ closes = 0

----------------------------------------------------------------------------
(* run(), shutdown(), main() *)

\* run(): no connector: logs and returns
RunRefuse ==
    /\ run_pc = "init"
    /\ LET r == _initialize_connectors(chains_to_listen, <<>>,
                                       contract_addresses)
       IN  /\ ~r.raised
           /\ connectors' = r.connectors
    /\ connectors' = <<>>
    /\ run_pc' = "returned"
    /\ UNCHANGED <<config, lanes, is_running, session, main_pc,
                   cancel_requested, closes>>

\* run() up to await asyncio.gather(*tasks)
RunStart ==
    /\ run_pc = "init"
    /\ LET r == _initialize_connectors(chains_to_listen, <<>>,
                                       contract_addresses)
       IN  /\ ~r.raised
           /\ connectors' = r.connectors
    /\ connectors' # <<>>
    /\ is_running' = TRUE
    /\ session' = start_session(session)
    /\ lanes' = tasks(connectors')
    /\ run_pc' = "gather"
    /\ UNCHANGED <<config, main_pc, cancel_requested, closes>>

\* run(): _initialize_connectors raises KeyError (line 247), before the
\* try of run(): the exception leaves run()
RunKeyError ==
    /\ run_pc = "init"
    /\ LET r == _initialize_connectors(chains_to_listen, <<>>,
                                       contract_addresses)
       IN  /\ r.raised
           /\ connectors' = r.connectors
    /\ run_pc' = "raised"
    /\ UNCHANGED <<config, lanes, is_running, session, main_pc,
                   cancel_requested, closes>>

\* a call of shutdown() up to its await of session.close()
CallShutdown ==
    LET r == shutdown(is_running, session)
    IN  /\ is_running' = r.is_running
        /\ session' = r.session
        /\ closes' = closes + r.closed

\* the finally of run(): shutdown()
RunShutdown(pc) ==
    /\ CallShutdown
    /\ run_pc' = pc

\* a task other than main() calls shutdown() of the listener while main()
\* runs
ShutdownCall ==
    /\ main_pc = "run"
    /\ CallShutdown
    /\ UNCHANGED <<config, connectors, lanes, run_pc, main_pc,
                   cancel_requested>>

\* gather passes the first exception of a task on to run(); the other
\* tasks are left running
GatherRaises ==
    /\ run_pc = "gather"
    /\ \E i \in Lanes : lanes[i].pc = "raised"
    /\ RunShutdown("closing_raise")
    /\ UNCHANGED <<config, connectors, lanes, main_pc,
                   cancel_requested>>

\* the main task is cancelled while run() awaits gather: gather cancels
\* every task, CancelledError reaches run(), which logs it and shuts down
Cancel ==
    /\ run_pc = "gather"
    /\ cancel_requested' = TRUE
    /\ lanes' = [i \in Lanes |-> cancel_lane(lanes[i])]
    /\ RunShutdown("closing")
    /\ UNCHANGED <<config, connectors, main_pc>>

\* session.close() is done: shutdown() and run() end
RunEnds ==
    /\ run_pc \in {"closing", "closing_raise"}
    /\ run_pc' = IF run_pc = "closing" THEN "returned" ELSE "raised"
    /\ UNCHANGED <<config, connectors, lanes, is_running, session,
                   main_pc, cancel_requested, closes>>

\* main(): run() is over; finally: shutdown(); main ends and asyncio.run
\* cancels the tasks that are left
MainEnds ==
    /\ main_pc = "run"
    /\ run_pc \in {"returned", "raised"}
    /\ CallShutdown
    /\ lanes' = [i \in Lanes |-> cancel_lane(lanes[i])]
    /\ main_pc' = IF run_pc = "returned" THEN "done" ELSE "raised"
    /\ UNCHANGED <<config, connectors, run_pc, cancel_requested>>

----------------------------------------------------------------------------
(* BlockchainConnector.listen_for_deposits and _listener_task *)

LaneStep(i, l) ==
    /\ lanes' = [lanes EXCEPT ![i] = l]
    /\ UNCHANGED <<config, connectors, is_running, session, run_pc,
                   main_pc, cancel_requested, closes>>

\* a poll that finds nothing (random.random() <= 0.6)
PollNothing(i) ==
    /\ can_poll(lanes[i])
    /\ LaneStep(i, lanes[i])

\* a poll that finds an event: the generator yields it and process_event
\* runs up to its first suspension point
PollEvent(i) ==
    /\ can_poll(lanes[i])
    /\ lanes[i].nonce_counter < MaxNonce
    /\ \E r \in MockDraws :
          LET n == next_nonce(lanes[i].nonce_counter)
              l == [lanes[i] EXCEPT !.nonce_counter = n]
          IN  LaneStep(i, process_event(
                    l, _generate_mock_event(l.chain, n, r), session))

\* a poll that finds an event and fails: _generate_mock_event raises
\* (line 87, after nonce_counter += 1); the except branch logs it and
\* awaits asyncio.sleep(15)
PollFails(i) ==
    /\ can_poll(lanes[i])
    /\ lanes[i].nonce_counter < MaxNonce
    /\ LaneStep(i, poll_failed(lanes[i]))

\* the sleep of the except branch is over: while True polls again
BackoffEnds(i) ==
    /\ lanes[i].pc = "backoff"
    /\ LaneStep(i, [lanes[i] EXCEPT !.pc = "sleep"])

\* the GET ended one way or another
PriceResponse(i) ==
    /\ lanes[i].pc = "price"
    /\ \E resp \in PriceResponses :
          LaneStep(i, Enriched(lanes[i], _get_token_price(resp), session))

\* the POST ended one way or another
ReportResponse(i) ==
    /\ lanes[i].pc = "report"
    /\ \E resp \in ReportResponses :
          LaneStep(i, report_done(lanes[i], resp))

Next ==
    \/ RunRefuse
    \/ RunStart
    \/ GatherRaises
    \/ Cancel
    \/ RunEnds
    \/ MainEnds
    \/ \E i \in Lanes : PollNothing(i)
    \/ \E i \in Lanes : PollEvent(i)
    \/ \E i \in Lanes : PollFails(i)
    \/ \E i \in Lanes : BackoffEnds(i)
    \/ \E i \in Lanes : PriceResponse(i)
    \/ \E i \in Lanes : ReportResponse(i)

Spec == Init /\ [][Next]_vars

----------------------------------------------------------------------------
(* The same pipeline with a stub in self.connectors[1]: its                *)
(* listen_for_deposits yields up to MaxFeed events of StubEvents, in any   *)
(* order, and _listener_task feeds them to process_event.                  *)

StubInit ==
    /\ chains_to_listen = <<1>>
    /\ contract_addresses = BRIDGE_CONTRACT_ADDRESSES
    /\ connectors = <<>>
    /\ lanes = <<>>
    /\ is_running = FALSE
    /\ session = "None"
    /\ run_pc = "init"
    /\ main_pc = "run"
    /\ cancel_requested = FALSE
    /\ closes = 0

\* async for event in connector.listen_for_deposits():
\*     await self.event_processor.process_event(event)
StubYields(i) ==
    /\ can_poll(lanes[i])
    /\ Len(lanes[i].received) < MaxFeed
    /\ \E e \in StubEvents : LaneStep(i, process_event(lanes[i], e, session))

StubNext ==
    \/ RunStart
    \/ GatherRaises
    \/ Cancel
    \/ RunEnds
    \/ MainEnds
    \/ \E i \in Lanes : StubYields(i)
    \/ \E i \in Lanes : PriceResponse(i)
    \/ \E i \in Lanes : ReportResponse(i)

StubSpec == StubInit /\ [][StubNext]_vars

----------------------------------------------------------------------------
(* The pipeline with shutdown() also called from outside run() and main()  *)

CallerNext ==
    \/ Next
    \/ ShutdownCall

CallerSpec == Init /\ [][CallerNext]_vars

----------------------------------------------------------------------------
(* The pipeline started with a configuration in which                      *)
(* Config.BRIDGE_CONTRACT_ADDRESSES has not the keys of                    *)
(* Config.RPC_ENDPOINTS                                                    *)

AddressMaps == {{1, 137}, {1}}

ConfigInit ==
    /\ chains_to_listen \in ChainLists
    /\ contract_addresses \in AddressMaps
    /\ connectors = <<>>
    /\ lanes = <<>>
    /\ is_running = FALSE
    /\ session = "None"
    /\ run_pc = "init"
    /\ main_pc = "run"
    /\ cancel_requested = FALSE
    /\ closes = 0

ConfigNext ==
    \/ Next
    \/ RunKeyError

ConfigSpec == ConfigInit /\ [][ConfigNext]_vars

----------------------------------------------------------------------------
(* The pipeline under the fairness the event loop provides: a timer that   *)
(* was set fires, and a request ends (at the latest by the total timeout   *)
(* of the ClientSession).  Nothing says that a signal ever arrives.        *)

\* the tasks a run can have: one per key of Config.RPC_ENDPOINTS
LaneIds == 1..Cardinality(RPC_ENDPOINTS)

\* the event loop resumes the task of lane i
LaneResumes(i) ==
    /\ i \in Lanes
    /\ \/ BackoffEnds(i)
       \/ PriceResponse(i)
       \/ ReportResponse(i)

\* the lists that name no chain id twice, that of main() among them (a
\* chain id named twice starts the tasks of the list without it)
FairInit ==
    /\ Init
    /\ \A j, k \in 1..Len(chains_to_listen) :
          chains_to_listen[j] = chains_to_listen[k] => j = k

FairSpec ==
    FairInit /\ [][Next]_vars /\ \A i \in LaneIds : WF_vars(LaneResumes(i))

----------------------------------------------------------------------------
(* Properties *)

Nonce(key) == key[2]

\* C1: the nonces of the events a listener emits are strictly increasing,
\* also when a failed poll lies between two of them.
C1_NoncesStrictlyIncrease ==
    \A i \in Lanes :
        \A j, k \in 1..Len(lanes[i].received) :
            j < k => Nonce(lanes[i].received[j]) < Nonce(lanes[i].received[k])

\* a listener emitted nonce 1, lost nonce 2 to a failed poll, recovered and
\* emitted nonce 3
C1_Witness ==
    \E i \in Lanes :
        /\ Len(lanes[i].received) = 2
        /\ Nonce(lanes[i].received[1]) = 1
        /\ Nonce(lanes[i].received[2]) = 3

\* the terminal states reached in the run: lane, position, entry
TerminalEntries ==
    {<<i, k>> : i \in Lanes, k \in 1..MaxNonce + MaxFeed} \cap
    UNION {{<<i, k>> : k \in 1..Len(lanes[i].terminal)} : i \in Lanes}

\* C2: in one run no (sourceChainId, nonce) is brought to a terminal state
\* twice, whatever chains_to_listen is.
C2_TerminalAtMostOnce ==
    \A a, b \in TerminalEntries :
        lanes[a[1]].terminal[a[2]].key = lanes[b[1]].terminal[b[2]].key
            => a = b

\* a list that names chain 1 twice, and two events of chain 1 finished
C2_Witness ==
    /\ chains_to_listen = <<1, 137, 1>>
    /\ \E i \in Lanes :
          /\ lanes[i].chain = 1
          /\ Len(lanes[i].terminal) >= 2
          /\ \A k \in 1..Len(lanes[i].terminal) :
                lanes[i].terminal[k].key[1] = 1

\* the stages of the event a lane holds say that validation rejected it:
\* no GET, no dispatch call, no report call
RejectedOnly(l) == l.stages = <<"Received", "Rejected">>

\* the dispatch calls of the run
Signed == UNION {lanes[i].signed : i \in Lanes}

\* C3: an event whose sourceChainId equals its destinationChainId is
\* rejected by validation: no dispatch call and no report call is made
\* for it.
C3_SameChainRejected ==
    /\ \A i \in Lanes :
          (/\ lanes[i].event # None
           /\ lanes[i].event[1].source_chain_id
                  = lanes[i].event[1].destination_chain_id)
              => RejectedOnly(lanes[i])
    /\ \A d \in Signed :
          d.event.source_chain_id # d.event.destination_chain_id

\* C4: an event with amount <= 0 ends in Rejected with no enrichment
\* request, no dispatch call and no report call, and its lane is back in
\* its async for, ready for the next event of the chain.
C4_NonPositiveAmountRejected ==
    /\ \A i \in Lanes :
          (lanes[i].event # None /\ lanes[i].event[1].amount <= 0)
              => /\ RejectedOnly(lanes[i])
                 /\ lanes[i].terminal[Len(lanes[i].terminal)] =
                        [key |-> Key(lanes[i].event[1]),
                         outcome |-> "Rejected"]
                 /\ can_poll(lanes[i]) \/ lanes[i].pc = "cancelled"
    /\ \A d \in Signed : d.event.amount > 0

\* a lane rejected an event and went on: the next event it received has
\* amount 0 and is rejected in turn, and the lane is ready for a third
C4_Witness ==
    \E i \in Lanes :
        /\ Len(lanes[i].received) = 2
        /\ Len(lanes[i].terminal) = 2
        /\ lanes[i].terminal[1].outcome = "Rejected"
        /\ lanes[i].event[1].amount = 0
        /\ RejectedOnly(lanes[i])
        /\ can_poll(lanes[i])

\* C5: within a lane, the processing of an event starts only when every
\* event the lane received before it is in a terminal state, and the events
\* are received in strictly increasing nonce order; lanes of different
\* chains interleave.
C5_LaneInNonceOrder ==
    \A i \in Lanes :
        LET r == lanes[i].received
            t == lanes[i].terminal
        IN  /\ Len(t) <= Len(r)
            /\ Len(r) <= Len(t) + 1
            /\ \A k \in 1..Len(t) : t[k].key = r[k]
            /\ \A k \in 1..Len(r) - 1 : Nonce(r[k]) < Nonce(r[k + 1])

\* two lanes have an event in flight at once, one of them its second
C5_Witness ==
    \E i, j \in Lanes :
        /\ i # j
        /\ lanes[i].pc \in {"price", "report"}
        /\ lanes[j].pc \in {"price", "report"}
        /\ Len(lanes[i].received) = 2
        /\ Len(lanes[i].terminal) = 1

\* a lane received the event of chain 1 with nonce 3 and then the one
\* with nonce 2
Got3Then2(l) ==
    /\ Len(l.received) >= 2
    /\ l.received[1] = <<1, 3>>
    /\ l.received[2] = <<1, 2>>

C7_EnrichmentDecidesValueOnly ==
    [][\A i \in Lanes :
          LET l == lanes[i]
              n == lanes'[i]
              after == IF session = "open" THEN <<"POST">>
                       ELSE <<"Reported", "Done">>
          IN  /\ (l.pc = "price" /\ n.pc \notin {"price", "cancelled"})
                    => /\ n.price \in {"price", "unavailable"}
                       /\ n.price = "unavailable" <=> n.value_usd = -1
                       /\ n.stages = l.stages \o
                                        <<"Enriched", "Dispatched">> \o after
                       /\ n.signed = l.signed \cup
                             {[event |-> l.event[1],
                               hash |-> keccak(message_to_sign(l.event[1]))]}
                       /\ n.pc = IF session = "open" THEN "report"
                                 ELSE "sleep"
              /\ (/\ Len(n.received) = Len(l.received) + 1
                  /\ _is_valid_event(n.event[1])
                  /\ session # "open")
                    => /\ n.price = "unavailable"
                       /\ n.value_usd = -1
                       /\ n.stages = <<"Received", "Validated", "Enriched",
                                       "Dispatched", "Reported", "Done">>
                       /\ [event |-> n.event[1],
                           hash |-> keccak(message_to_sign(n.event[1]))]
                             \in n.signed
                       /\ n.pc = "sleep"]_vars

\* an event whose price fetch failed was dispatched and waits for the
\* answer to its report, whose value is -1
C7_Witness ==
    \E i \in Lanes :
        /\ lanes[i].pc = "report"
        /\ lanes[i].price = "unavailable"
        /\ lanes[i].value_usd = -1
        /\ posted(lanes[i]).value_usd = -1
        /\ lanes[i].stages = <<"Received", "Validated", "GET", "Enriched",
                               "Dispatched", "POST">>

SameSigningRequest(e, f) ==
    /\ e.recipient = f.recipient
    /\ e.token_address = f.token_address
    /\ e.amount = f.amount
    /\ e.nonce = f.nonce
    /\ e.destination_chain_id = f.destination_chain_id

\* C8: the message hash of a dispatch call is a function of (recipient,
\* tokenAddress, amount, nonce, destinationChainId): dispatch calls for
\* events that agree on these five have the same hash.
C8_HashOfFiveFields ==
    \A c, d \in Signed :
        SameSigningRequest(c.event, d.event) => c.hash = d.hash

\* two dispatch calls with the same hash for events that agree on the
\* five fields and differ in the transaction hash, the depositor and the
\* source chain; the second was made after a price was had
C8_Witness ==
    \E i \in Lanes : \E c \in lanes[i].signed :
        LET e == lanes[i].event[1]
        IN  /\ "Dispatched" \in {lanes[i].stages[k] :
                                    k \in 1..Len(lanes[i].stages)}
            /\ SameSigningRequest(c.event, e)
            /\ c.event.transaction_hash # e.transaction_hash
            /\ c.event.depositor # e.depositor
            /\ c.event.source_chain_id # e.source_chain_id
            /\ c.hash = _request_validator_signatures(e)
            /\ lanes[i].price = "price"

\* C9: no failure of the report call leaves _report_to_monitoring_service:
\* the event reaches Done and the lane goes on.
C9_ReportFailureSwallowed ==
    \A i \in Lanes :
        /\ lanes[i].pc # "raised"
        /\ lanes[i].stages # <<>>
              => lanes[i].stages[Len(lanes[i].stages)] # "Failed"

\* C10: an error raised while one lane processes an event ends no sibling
\* lane, does not close the session the sibling lanes use and does not
\* leave run().
C10_LaneErrorStaysLocal ==
    \A i, j \in Lanes :
        (i # j /\ lanes[i].pc = "raised" /\ ~cancel_requested)
            => /\ lanes[j].pc # "cancelled"
               /\ session = "open"
               /\ run_pc = "gather"
               /\ main_pc = "run"

\* C11: in a run session.close() is executed at most once, whoever calls
\* shutdown() and however often, and it has been executed once when run()
\* has left its finally after having opened the session.
C11_SessionClosedExactlyOnce ==
    /\ closes <= 1
    /\ closes = 1 <=> session = "closed"
    /\ (run_pc \in {"returned", "raised"} /\ session # "None") => closes = 1
    /\ (main_pc # "run" /\ session # "None") => closes = 1

\* shutdown() was called three times: by another task while the lanes were
\* running (a lane then processed an event without a session), by the
\* finally of run() after the cancellation, by the finally of main()
C11_Witness ==
    /\ main_pc = "done"
    /\ cancel_requested
    /\ closes = 1
    /\ \E i \in Lanes :
          lanes[i].stages = <<"Received", "Validated", "Enriched",
                              "Dispatched", "Reported", "Done">>

\* C12: when run() is cancelled, every event a lane is processing reaches
\* a terminal state before the session is released.
C12_InFlightDrainedOnCancel ==
    (cancel_requested /\ session # "open")
        => \A i \in Lanes : Len(lanes[i].terminal) = Len(lanes[i].received)

\* the step from l to n makes a dispatch call
DispatchBegins(l, n) ==
    \E k \in Len(l.stages) + 1..Len(n.stages) : n.stages[k] = "Dispatched"

\* C13: once the session has been closed, by the cancellation of run() or
\* by a call of shutdown() while the lanes run, no lane receives a new
\* event and no dispatch call is made.
C13_NoNewEventAfterShutdown ==
    [][session = "closed"
          => \A i \in Lanes :
                /\ lanes'[i].received = lanes[i].received
                /\ ~DispatchBegins(lanes[i], lanes'[i])]_vars

\* the chain ids with an entry in both maps of Config
ValidChains ==
    {chains_to_listen[k] : k \in 1..Len(chains_to_listen)}
        \cap RPC_ENDPOINTS \cap contract_addresses

\* C14: when no chain of chains_to_listen has a valid configuration, run()
\* creates no listener task, opens no session and ends with an error, not
\* with an ordinary return.
C14_RefusesToStart ==
    (ValidChains = {} /\ run_pc # "init")
        => /\ lanes = <<>>
           /\ session = "None"
           /\ run_pc = "raised"

\* C15: once run() has initialised its connectors, there is a listener
\* task for exactly the chain ids of chains_to_listen that have an entry in
\* both maps: a chain id that lacks one is skipped and startup goes on.
C15_InvalidChainsSkipped ==
    run_pc # "init"
        => /\ {connectors[k] : k \in 1..Len(connectors)} = ValidChains
           /\ {lanes[k].chain : k \in 1..Len(lanes)} = ValidChains

\* C16: a failed poll does not end the sequence of a listener: the wait of
\* the except branch is longer than any wait between two polls, the
\* listener leaves it only for the sleep before its next poll (or by
\* cancellation), and a listener whose task is neither cancelled nor ended
\* by an exception of process_event is in that sleep again and again.
C16_PollFailureNeverEnds ==
    /\ [](\A i \in Lanes :
             lanes[i].pc = "backoff"
                => \A u, v \in Jitter :
                      sleep_seconds(lanes[i].pc, u) > sleep_seconds("sleep", v))
    /\ [][\A i \in Lanes :
             lanes[i].pc = "backoff"
                => lanes'[i].pc \in {"backoff", "sleep", "cancelled"}]_vars
    /\ \A i \in LaneIds :
          []<>(i \in Lanes => \/ can_poll(lanes[i])
                              \/ lanes[i].pc \in {"cancelled", "raised"})

\* a listener that lost a nonce to a failed poll and waited is polling
\* again: it emitted the next nonce
C16_Witness ==
    \E i \in Lanes :
        /\ lanes[i].nonce_counter = 2
        /\ lanes[i].received = <<<<lanes[i].chain, 2>>>>
        /\ lanes[i].pc = "price"

StageOrder ==
    <<"Received", "Validated", "Enriched", "Dispatched", "Reported", "Done">>

RECURSIVE StagesOnly(_)
\* the stages in s, without the marks of the requests and of cancellation
StagesOnly(s) ==
    IF s = <<>> THEN <<>>
    ELSE IF Head(s) \in {"GET", "POST", "Cancelled"}
         THEN StagesOnly(Tail(s))
         ELSE <<Head(s)>> \o StagesOnly(Tail(s))

IsPrefix(a, b) == Len(a) <= Len(b) /\ a = SubSeq(b, 1, Len(a))

\* s is a way through the state machine of an event: the stages in order,
\* Rejected from Received, Failed from Dispatched; the GET is issued right
\* after Validated and the POST right after Dispatched
InStageOrder(s) ==
    /\ \/ IsPrefix(StagesOnly(s), StageOrder)
       \/ StagesOnly(s) = <<"Received", "Rejected">>
       \/ StagesOnly(s) = <<"Received", "Validated", "Enriched",
                            "Dispatched", "Failed">>
    /\ \A k \in 1..Len(s) :
          /\ s[k] = "GET" => (k > 1 /\ s[k - 1] = "Validated")
          /\ s[k] = "POST" => (k > 1 /\ s[k - 1] = "Dispatched")
          /\ s[k] = "Enriched" => (k > 1 /\ s[k - 1] \in {"Validated", "GET"})

Last(s) == s[Len(s)]

\* the event of l is in a terminal state
IsTerminal(l) ==
    l.stages # <<>> /\ Last(l.stages) \in {"Done", "Rejected", "Failed"}

\* C17: the stages of an event are taken in the order Received, Validated,
\* Enriched, Dispatched, Reported, Done (Rejected after Received, Failed
\* after Dispatched), and an event in a terminal state takes no further
\* step: what follows in its lane is the next event.
C17_StagesInOrder ==
    [][\A i \in 1..Len(lanes') :
          /\ InStageOrder(lanes'[i].stages)
          /\ (i \in Lanes /\ IsTerminal(lanes[i]))
                => /\ IsPrefix(lanes[i].terminal, lanes'[i].terminal)
                   /\ \/ lanes'[i].stages = lanes[i].stages
                      \/ /\ Len(lanes'[i].received)
                               = Len(lanes[i].received) + 1
                         /\ IsPrefix(<<"Received">>, lanes'[i].stages)]_vars

\* a lane rejected an event and brought the next one through every stage,
\* with both requests
C17_Witness ==
    \E i \in Lanes :
        /\ Len(lanes[i].terminal) = 2
        /\ lanes[i].terminal[1].outcome = "Rejected"
        /\ lanes[i].stages = <<"Received", "Validated", "GET", "Enriched",
                               "Dispatched", "POST", "Reported", "Done">>

\* events the listener of l emitted that are in no terminal state
InFlight(l) == Len(l.received) - Len(l.terminal)

\* C18: a chain has at most one event that was emitted and is in no
\* terminal state, in all its lanes together, and while it has one its
\* listener does not poll.
C18_OneInFlightPerChain ==
    /\ \A c \in RPC_ENDPOINTS :
          Cardinality({i \in Lanes : /\ lanes[i].chain = c
                                     /\ InFlight(lanes[i]) > 0}) <= 1
    /\ \A i \in Lanes :
          /\ InFlight(lanes[i]) \in {0, 1}
          /\ InFlight(lanes[i]) = 1 => ~can_poll(lanes[i])

\* chains_to_listen names chain 1 twice, and both chains have their second
\* event in flight
C18_Witness ==
    /\ chains_to_listen = <<1, 137, 1>>
    /\ Len(lanes) = 2
    /\ \A i \in Lanes :
          /\ InFlight(lanes[i]) = 1
          /\ Len(lanes[i].terminal) = 1
          /\ lanes[i].pc \in {"price", "report"}

\* the step from l to n issues a request
RequestIssued(l, n) ==
    n # l /\ n.stages # <<>> /\ Last(n.stages) \in {"GET", "POST"}

\* C19: a lane issues a GET or a POST only in a step in which the session
\* exists and is open, whenever shutdown() is called; otherwise the event
\* goes on without the request.
C19_RequestsOnOpenSessionOnly ==
    [][\A i \in Lanes :
          RequestIssued(lanes[i], lanes'[i])
              => session = "open" /\ session' = "open"]_vars

\* shutdown() was called while a lane waited for the price: the GET was
\* issued on the open session and the POST was skipped
C19_Witness ==
    /\ run_pc = "gather"
    /\ session = "closed"
    /\ \E i \in Lanes :
          lanes[i].stages = <<"Received", "Validated", "GET", "Enriched",
                              "Dispatched", "Reported", "Done">>

\* C20: two different events of a run that were dispatched have different
\* signing messages: the dispatched events have as many messages as they
\* are.
C20_DistinctSigningMessages ==
    Cardinality({message_to_sign(d.event) : d \in Signed})
        = Cardinality({d.event : d \in Signed})

\* dispatched: two events of chain 1, and an event of chain 137 that
\* differs from one of them only in the source and destination chain
C20_Witness ==
    \E c, d, e \in Signed :
        /\ Key(c.event) = <<1, 1>>
        /\ Key(d.event) = <<1, 2>>
        /\ Key(e.event) = <<137, 1>>
        /\ e.event.recipient = c.event.recipient
        /\ e.event.amount = c.event.amount
        /\ e.event.transaction_hash = c.event.transaction_hash

====
